---- MODULE Spec2Model ----
(***************************************************************************)
(* Model of the resume / job-description matcher:                          *)
(*   src/resume_matcher.py   phrase cleaning, chunking, extraction adapter,*)
(*                           Jaccard scoring, best pairs, coverage, report *)
(*   src/lambda_function.py  the API Gateway -> Lambda transport wrapper   *)
(*                                                                         *)
(* Representation.                                                         *)
(*   - A Python str is a sequence of one-character strings (ASCII only).   *)
(*     None is NoneVal, a one-element sequence whose element is not a      *)
(*     character, so that it differs from every str.                       *)
(*   - A Python float that is a quotient of two small integers (a Jaccard  *)
(*     score, a coverage) is the exact fraction <<n, d>> with d > 0;       *)
(*     comparisons are by cross multiplication.  For the integers that     *)
(*     occur here IEEE division is monotonic and maps distinct fractions   *)
(*     to distinct doubles, so the order is the same.                      *)
(*   - A float rounded with round(x, 2) is the integer number of           *)
(*     hundredths (0.67 is 67, 33.33 is 3333).                             *)
(***************************************************************************)
EXTENDS Integers, Sequences, FiniteSets, TLC

VARIABLES
    \* ---- lambda_handler / generate_match_report -------------------------
    event,           \* the request: the value of event.get("body")
    pc,              \* position of the invocation
    jd_text,         \* lambda_function.py:17
    resume_text,     \* lambda_function.py:18
    idx,             \* index of the chunk the for-loop of line 58 is at
    phrases,         \* resume_matcher.py:57, the accumulator of the adapter
    jd_phrases,      \* resume_matcher.py:108 (input of the scoring functions)
    resume_phrases,  \* resume_matcher.py:109 (input of the scoring functions)
    pairs,           \* resume_matcher.py:111, result of _best_pairs
    cov,             \* resume_matcher.py:112, result of _coverage
    report,          \* the dict returned by generate_match_report
    response,        \* the dict returned by lambda_handler
    \* ---- the external service, seen from the client ----------------------
    inflight,        \* the detect_key_phrases requests not yet answered
    calls,           \* history: every request sent, <<document, chunk index>>
    stream,          \* history: raw phrases returned, per document, in order
    failed,          \* history: a detect_key_phrases call has raised
    \* ---- direct calls of the pure functions -------------------------------
    text,            \* argument of _chunk
    max_chars,       \* argument of _chunk
    chunks,          \* result of _chunk
    top_k            \* argument of _best_pairs

vars == <<event, pc, jd_text, resume_text, idx, phrases, jd_phrases,
          resume_phrases, pairs, cov, report, response, inflight, calls,
          stream, failed, text, max_chars, chunks, top_k>>

NoneVal == <<"None">>

Min(a, b) == IF a <= b THEN a ELSE b

\* the sequence f with its elements evaluated once (a list comprehension
\* [e(x) for x in xs] is AsList([i \in DOMAIN xs |-> e(xs[i])]))
AsList(f) == SubSeq(f, 1, Len(f))

(***************************************************************************)
(* Characters                                                              *)
(***************************************************************************)
Lowers == {"a", "b", "c", "d", "e", "f", "g", "h", "i", "j", "k", "l", "m",
           "n", "o", "p", "q", "r", "s", "t", "u", "v", "w", "x", "y", "z"}
Uppers == {"A", "B", "C", "D", "E", "F", "G", "H", "I", "J", "K", "L", "M",
           "N", "O", "P", "Q", "R", "S", "T", "U", "V", "W", "X", "Y", "Z"}
Digits == {"0","1","2","3","4","5","6","7","8","9"}

\* the lower-case letter of every upper-case letter
LowerOf ==
    "A" :> "a" @@ "B" :> "b" @@ "C" :> "c" @@ "D" :> "d" @@ "E" :> "e"
    @@ "F" :> "f" @@ "G" :> "g" @@ "H" :> "h" @@ "I" :> "i" @@ "J" :> "j"
    @@ "K" :> "k" @@ "L" :> "l" @@ "M" :> "m" @@ "N" :> "n" @@ "O" :> "o"
    @@ "P" :> "p" @@ "Q" :> "q" @@ "R" :> "r" @@ "S" :> "s" @@ "T" :> "t"
    @@ "U" :> "u" @@ "V" :> "v" @@ "W" :> "w" @@ "X" :> "x" @@ "Y" :> "y"
    @@ "Z" :> "z"

\* str.lower() on one character
LowerChar(c) == IF c \in Uppers THEN LowerOf[c] ELSE c

\* str.lower()
RECURSIVE Lower(_)
Lower(s) ==
    IF s = <<>> THEN <<>> ELSE <<LowerChar(Head(s))>> \o Lower(Tail(s))

(***************************************************************************)
(* Character classes as (set, polarity): a character c is in the class     *)
(* <<S, TRUE>> when c \in S and in the class <<S, FALSE>> when c \notin S. *)
(***************************************************************************)
SpaceChars == {" ", "\t", "\n", "\r"}
WordChars  == Lowers \cup Uppers \cup Digits \cup {"_"}
TokenChars == Lowers \cup Uppers \cup Digits \cup {"+", ".", "-"}

InClass(c, S, pos) == (c \in S) = pos

(***************************************************************************)
(* Stripping and collapsing                                                *)
(***************************************************************************)
\* s without its longest prefix of characters of the class
RECURSIVE LStrip(_, _, _)
LStrip(s, S, pos) ==
    IF s # <<>> /\ InClass(Head(s), S, pos) THEN LStrip(Tail(s), S, pos) ELSE s

\* s without its longest suffix of characters of the class
RECURSIVE RStrip(_, _, _)
RStrip(s, S, pos) ==
    IF s # <<>> /\ InClass(s[Len(s)], S, pos)
    THEN RStrip(SubSeq(s, 1, Len(s) - 1), S, pos)
    ELSE s

\* str.strip()
Strip(s) == RStrip(LStrip(s, SpaceChars, TRUE), SpaceChars, TRUE)

\* re.sub(r"\s+", " ", s): every maximal run of whitespace becomes one space
RECURSIVE CollapseSpace(_)
CollapseSpace(s) ==
    IF s = <<>> THEN <<>>
    ELSE IF Head(s) \in SpaceChars
         THEN <<" ">> \o CollapseSpace(LStrip(s, SpaceChars, TRUE))
         ELSE <<Head(s)>> \o CollapseSpace(Tail(s))

_normalize_space(s) == CollapseSpace(Lower(Strip(s)))

\* re.sub(r"^[^\w]+|[^\w]+$", "", p) after _normalize_space
_clean_phrase(p) ==
    LET q == _normalize_space(p)
    IN  RStrip(LStrip(q, WordChars, FALSE), WordChars, FALSE)

(***************************************************************************)
(* Tokenizing                                                              *)
(***************************************************************************)
STOPWORDS == {
    <<"a">>, <<"a","n">>, <<"t","h","e">>, <<"a","n","d">>, <<"o","r">>,
    <<"o","f">>, <<"f","o","r">>, <<"t","o">>, <<"i","n">>, <<"o","n">>,
    <<"w","i","t","h">>, <<"b","y">>, <<"a","t">>, <<"f","r","o","m">>,
    <<"a","s">>, <<"i","s">>, <<"a","r","e">>, <<"b","e">>,
    <<"b","e","i","n","g">>, <<"b","e","e","n">>, <<"t","h","a","t">>,
    <<"t","h","i","s">>, <<"i","t">>, <<"i","t","s">>, <<"y","o","u">>,
    <<"y","o","u","r">>, <<"w","e">>, <<"o","u","r">>, <<"u","s">>
}

\* length of the longest prefix of s made of characters of the class
RECURSIVE RunLen(_, _, _)
RunLen(s, S, pos) ==
    IF s # <<>> /\ InClass(Head(s), S, pos)
    THEN 1 + RunLen(Tail(s), S, pos)
    ELSE 0

\* re.findall(r"[class]+", s): the maximal runs of characters of the class
RECURSIVE FindRuns(_, _, _)
FindRuns(s, S, pos) ==
    IF s = <<>> THEN <<>>
    ELSE IF InClass(Head(s), S, pos)
         THEN LET n == RunLen(s, S, pos)
              IN  <<SubSeq(s, 1, n)>>
                  \o FindRuns(SubSeq(s, n + 1, Len(s)), S, pos)
         ELSE FindRuns(Tail(s), S, pos)

_tokenize(s) ==
    SelectSeq(FindRuns(Lower(s), TokenChars, TRUE),
              LAMBDA t : t \notin STOPWORDS /\ Len(t) > 1)

\* len(p.split()): the number of maximal runs of non-whitespace
WordCount(p) == Len(FindRuns(p, SpaceChars, FALSE))

(***************************************************************************)
(* _dedupe_preserve_order                          resume_matcher.py:35-42 *)
(***************************************************************************)
\* The loops over a list are written as a loop over the positions lo..hi
\* that runs its first half and then its second half, which keeps the depth
\* of evaluation logarithmic in the length of the list.

\* the for-loop of lines 38-41 over items[lo..hi], entered with the local
\* seen: what it appends to out.  The second half is entered with seen as
\* the first half leaves it, which is seen and what the first half appended.
RECURSIVE DedupeLoop(_, _, _, _)
DedupeLoop(items, lo, hi, seen) ==
    IF lo > hi THEN <<>>
    ELSE IF lo = hi
         THEN (IF items[lo] # <<>> /\ items[lo] \notin seen
               THEN <<items[lo]>> ELSE <<>>)
         ELSE LET mid   == (lo + hi) \div 2
                  first == DedupeLoop(items, lo, mid, seen)
              IN  first \o DedupeLoop(items, mid + 1, hi,
                                      seen \cup {first[i] : i \in DOMAIN first})

\* a plausible slip: only the empty items are dropped
_dedupe_noSeen(items) == SelectSeq(items, LAMBDA x : x # <<>>)

_dedupe_preserve_order(items) == DedupeLoop(items, 1, Len(items), {})

(***************************************************************************)
(* _chunk                                          resume_matcher.py:44-53 *)
(***************************************************************************)
\* text[i:j] for 0 <= i <= j
Slice(s, i, j) == SubSeq(s, i + 1, Min(j, Len(s)))

\* the while-loop of lines 50-52 from offset i on
RECURSIVE ChunkLoop(_, _, _, _)
ChunkLoop(t, n, i, acc) ==
    IF i < Len(t)
    THEN ChunkLoop(t, n, i + n, Append(acc, Slice(t, i, i + n)))
    ELSE acc

\* a plausible slip: the loop stops when no full slice is left
RECURSIVE ChunkLoop_fullOnly(_, _, _, _)
ChunkLoop_fullOnly(t, n, i, acc) ==
    IF i + n <= Len(t)
    THEN ChunkLoop_fullOnly(t, n, i + n, Append(acc, Slice(t, i, i + n)))
    ELSE acc

_chunk_fullOnly(t0, n) ==
    LET t == IF t0 = NoneVal THEN <<>> ELSE t0
    IN  IF Len(t) <= n THEN <<t>> ELSE ChunkLoop_fullOnly(t, n, 0, <<>>)

_chunk(t0, n) ==
    LET t == IF t0 = NoneVal THEN <<>> ELSE t0      \* text = text or ""
    IN  IF Len(t) <= n THEN <<t>> ELSE ChunkLoop(t, n, 0, <<>>)

\* the default of the parameter max_chars
DEFAULT_MAX_CHARS == 4500

(***************************************************************************)
(* _jaccard                                        resume_matcher.py:66-72 *)
(***************************************************************************)
RECURSIVE GCD(_, _)
GCD(a, b) == IF b = 0 THEN a ELSE GCD(b, a % b)

\* the float n / d (d > 0) as a fraction in lowest terms
Frac(n, d) == LET g == GCD(n, d) IN <<n \div g, d \div g>>

Zero == <<0, 1>>     \* 0.0
One  == <<1, 1>>     \* 1.0

Less(x, y)   == x[1] * y[2] < y[1] * x[2]          \* x < y
LessEq(x, y) == x[1] * y[2] <= y[1] * x[2]         \* x <= y

ToSet(seq) == {seq[i] : i \in DOMAIN seq}

\* a plausible slip: the union counted as len(a) + len(b)
_jaccard_sumUnion(a_tokens, b_tokens) ==
    LET a == ToSet(a_tokens)
        b == ToSet(b_tokens)
    IN  IF a = {} /\ b = {} THEN Zero
        ELSE Frac(Cardinality(a \cap b), Cardinality(a) + Cardinality(b))

_jaccard(a_tokens, b_tokens) ==
    LET a == ToSet(a_tokens)
        b == ToSet(b_tokens)
        inter == Cardinality(a \cap b)
        union == Cardinality(a \cup b)
    IN  IF a = {} /\ b = {} THEN Zero
        ELSE IF union # 0 THEN Frac(inter, union) ELSE Zero

(***************************************************************************)
(* _best_pairs                                     resume_matcher.py:74-88 *)
(***************************************************************************)
\* jd_tok of line 76: the list of (phrase, tokens)
JdTok(jd) == AsList([i \in DOMAIN jd |-> <<jd[i], _tokenize(jd[i])>>])

\* a plausible slip: score >= best_score, so that the last of equals wins
RECURSIVE BestMatch_lastWins(_, _, _, _)
BestMatch_lastWins(rtok, jd_tok, lo, hi) ==
    IF lo > hi THEN <<Zero, <<>>>>
    ELSE IF lo = hi
         THEN <<_jaccard(rtok, jd_tok[lo][2]), jd_tok[lo][1]>>
         ELSE LET mid    == (lo + hi) \div 2
                  first  == BestMatch_lastWins(rtok, jd_tok, lo, mid)
                  second == BestMatch_lastWins(rtok, jd_tok, mid + 1, hi)
              IN  IF LessEq(first[1], second[1]) THEN second ELSE first

\* lines 79-83 over jd_tok[lo..hi]: the <<best_score, best_jp>> the loop
\* leaves when it starts from <<0.0, "">>.  As score > best_score is
\* strict, an entry replaces best only when its score is greater than
\* every score before it; so the loop over lo..hi leaves what its second
\* half leaves when that is greater than what its first half leaves, and
\* what its first half leaves otherwise.
RECURSIVE BestMatch(_, _, _, _)
BestMatch(rtok, jd_tok, lo, hi) ==
    IF lo > hi THEN <<Zero, <<>>>>
    ELSE IF lo = hi
         THEN LET score == _jaccard(rtok, jd_tok[lo][2])
              IN  IF Less(Zero, score) THEN <<score, jd_tok[lo][1]>>
                  ELSE <<Zero, <<>>>>
         ELSE LET mid    == (lo + hi) \div 2
                  first  == BestMatch(rtok, jd_tok, lo, mid)
                  second == BestMatch(rtok, jd_tok, mid + 1, hi)
              IN  IF Less(first[1], second[1]) THEN second ELSE first

\* lines 78-83 for one resume phrase: <<rp, best_jp, best_score>>
Candidate(rp, jd_tok) ==
    LET best == BestMatch(_tokenize(rp), jd_tok, 1, Len(jd_tok))
    IN  <<rp, best[2], best[1]>>

\* a plausible slip: the test of line 84 left out
RECURSIVE ProducedPairs_keepZero(_, _, _, _)
ProducedPairs_keepZero(res, jd_tok, lo, hi) ==
    IF lo > hi THEN <<>>
    ELSE IF lo = hi
         THEN <<Candidate(res[lo], jd_tok)>>
         ELSE LET mid == (lo + hi) \div 2
              IN  ProducedPairs_keepZero(res, jd_tok, lo, mid)
                  \o ProducedPairs_keepZero(res, jd_tok, mid + 1, hi)

\* the outer loop of lines 77-85 over res[lo..hi]: what it appends to pairs
RECURSIVE ProducedPairs(_, _, _, _)
ProducedPairs(res, jd_tok, lo, hi) ==
    IF lo > hi THEN <<>>
    ELSE IF lo = hi
         THEN LET c == Candidate(res[lo], jd_tok)
              IN  IF Less(Zero, c[3]) THEN <<c>> ELSE <<>>
         ELSE LET mid == (lo + hi) \div 2
              IN  ProducedPairs(res, jd_tok, lo, mid)
                  \o ProducedPairs(res, jd_tok, mid + 1, hi)

\* two sequences sorted by descending score merged into one; of two
\* elements of equal score the one of a comes first
RECURSIVE MergeDesc(_, _)
MergeDesc(a, b) ==
    IF a = <<>> THEN b
    ELSE IF b = <<>> THEN a
    ELSE IF Less(Head(a)[3], Head(b)[3])
         THEN <<Head(b)>> \o MergeDesc(a, Tail(b))
         ELSE <<Head(a)>> \o MergeDesc(Tail(a), b)

\* of two elements of equal score the one of b comes first
RECURSIVE MergeDesc_rightFirst(_, _)
MergeDesc_rightFirst(a, b) ==
    IF a = <<>> THEN b
    ELSE IF b = <<>> THEN a
    ELSE IF LessEq(Head(a)[3], Head(b)[3])
         THEN <<Head(b)>> \o MergeDesc_rightFirst(a, Tail(b))
         ELSE <<Head(a)>> \o MergeDesc_rightFirst(Tail(a), b)

\* a plausible slip: a sort that is not stable (ascending, then reversed):
\* pairs of equal score come out in reverse order
RECURSIVE SortByScoreDesc_reversed(_)
SortByScoreDesc_reversed(s) ==
    IF Len(s) <= 1 THEN s
    ELSE LET mid == Len(s) \div 2
         IN  MergeDesc_rightFirst(
                 SortByScoreDesc_reversed(SubSeq(s, 1, mid)),
                 SortByScoreDesc_reversed(SubSeq(s, mid + 1, Len(s))))

\* pairs.sort(key=lambda x: x[2], reverse=True): list.sort is a stable merge
\* sort, also with reverse=True
RECURSIVE SortByScoreDesc(_)
SortByScoreDesc(s) ==
    IF Len(s) <= 1 THEN s
    ELSE LET mid == Len(s) \div 2
         IN  MergeDesc(SortByScoreDesc(SubSeq(s, 1, mid)),
                       SortByScoreDesc(SubSeq(s, mid + 1, Len(s))))

\* s[:k]
Take(s, k) ==
    IF k >= 0 THEN SubSeq(s, 1, Min(k, Len(s)))
    ELSE SubSeq(s, 1, Len(s) + k)

_best_pairs(res, jd, k) ==
    Take(SortByScoreDesc(ProducedPairs(res, JdTok(jd), 1, Len(res))), k)

DEFAULT_TOP_K == 10

(***************************************************************************)
(* _coverage                                      resume_matcher.py:90-102 *)
(***************************************************************************)
\* [_tokenize(p) for p in ps] of lines 91 and 92
TokenizeAll(ps) == AsList([i \in DOMAIN ps |-> _tokenize(ps[i])])

\* max(a, b) on floats
MaxScore(a, b) == IF Less(a, b) THEN b ELSE a

\* lines 97-99 over res_tok[lo..hi]: the best the loop leaves when it
\* starts from 0.0, the greatest of 0.0 and the scores
RECURSIVE BestAgainst(_, _, _, _)
BestAgainst(jt, res_tok, lo, hi) ==
    IF lo > hi THEN Zero
    ELSE IF lo = hi
         THEN MaxScore(Zero, _jaccard(jt, res_tok[lo]))
         ELSE LET mid == (lo + hi) \div 2
              IN  MaxScore(BestAgainst(jt, res_tok, lo, mid),
                           BestAgainst(jt, res_tok, mid + 1, hi))

\* the loop of lines 96-101 over jd_tok[lo..hi]: what it adds to hits
RECURSIVE Hits(_, _, _, _, _)
Hits(jd_tok, res_tok, thresh, lo, hi) ==
    IF lo > hi THEN 0
    ELSE IF lo = hi
         THEN (IF LessEq(thresh, BestAgainst(jd_tok[lo], res_tok, 1, Len(res_tok)))
               THEN 1 ELSE 0)
         ELSE LET mid == (lo + hi) \div 2
              IN  Hits(jd_tok, res_tok, thresh, lo, mid)
                  + Hits(jd_tok, res_tok, thresh, mid + 1, hi)

_coverage(jd, res, thresh) ==
    LET jd_tok  == TokenizeAll(jd)
        res_tok == TokenizeAll(res)
    IN  IF jd_tok = <<>> THEN Zero
        ELSE Frac(Hits(jd_tok, res_tok, thresh, 1, Len(jd_tok)), Len(jd_tok))

\* thresh = 0.6; the double 0.6 is the double 3 / 5
THRESH == <<3, 5>>

(***************************************************************************)
(* aws_extract_key_phrases                         resume_matcher.py:55-64 *)
(***************************************************************************)
\* the inner loop of lines 60-61 over one response: the KeyPhrases of the
\* response are given by their "Text", NoneVal for an entry without one
CleanOne(kp) == _clean_phrase(IF kp = NoneVal THEN <<>> ELSE kp)

CleanAll(kps) == AsList([i \in DOMAIN kps |-> CleanOne(kps[i])])

MAX_WORDS == 6

\* line 63
FilterPhrases(ps) ==
    SelectSeq(ps, LAMBDA q : q # <<>> /\ WordCount(q) <= MAX_WORDS)

\* lines 62-64 on the accumulated phrases
FinishExtraction(ps) == _dedupe_preserve_order(FilterPhrases(ps))

(***************************************************************************)
(* generate_match_report                         resume_matcher.py:104-124 *)
(***************************************************************************)
\* the integer nearest to n / d, a tie going to the even one: round() of
\* Python on a float that is a tie exactly.  Of the fractions that occur,
\* only those over 8 and 32 are ties, and these are exact in binary.
RoundHalfEven(n, d) ==
    LET q == n \div d
        r == n % d
    IN  IF 2 * r < d THEN q
        ELSE IF 2 * r > d THEN q + 1
        ELSE IF q % 2 = 0 THEN q ELSE q + 1

\* round(s, 2) in hundredths
Round2(s) == RoundHalfEven(s[1] * 100, s[2])

\* round(c * 100, 2) in hundredths
RoundPercent(c) == RoundHalfEven(c[1] * 10000, c[2])

PHRASE_CAP == 50

\* the list of lines 120-123
TopMatches(ps) ==
    AsList([i \in DOMAIN ps |-> [resume_phrase |-> ps[i][1],
                                 jd_phrase     |-> ps[i][2],
                                 score         |-> Round2(ps[i][3])]])

\* a plausible slip: the phrase lists are not capped
BuildReport_uncapped(jdp, resp, ps, c) ==
    [overall_match_score |-> RoundPercent(c),
     jd_key_phrases      |-> jdp,
     resume_key_phrases  |-> resp,
     top_matches         |-> TopMatches(ps)]

\* lines 114-124
BuildReport(jdp, resp, ps, c) ==
    [overall_match_score |-> RoundPercent(c),
     jd_key_phrases      |-> Take(jdp, PHRASE_CAP),
     resume_key_phrases  |-> Take(resp, PHRASE_CAP),
     top_matches         |-> TopMatches(ps)]

(***************************************************************************)
(* Values of the variables a specification does not use                    *)
(***************************************************************************)
NoReport   == [none |-> TRUE]
NoResponse == [none |-> TRUE]
NoEvent    == [type |-> "unused"]

HandlerIdle ==
    /\ event = NoEvent
    /\ jd_text = NoneVal
    /\ resume_text = NoneVal
    /\ idx = 0
    /\ phrases = <<>>
    /\ report = NoReport
    /\ response = NoResponse
    /\ inflight = {}
    /\ calls = <<>>
    /\ stream = [jd |-> <<>>, resume |-> <<>>]
    /\ failed = FALSE

ChunkIdle == text = NoneVal /\ max_chars = DEFAULT_MAX_CHARS /\ chunks = <<>>

ScoreIdle ==
    /\ jd_phrases = <<>>
    /\ resume_phrases = <<>>
    /\ pairs = <<>>
    /\ cov = Zero

handlerVars == <<event, jd_text, resume_text, idx, phrases, report, response,
                 inflight, calls, stream, failed>>
chunkVars   == <<text, max_chars, chunks>>

\* the sequences over S of length at most n
SeqsUpTo(S, n) == UNION {[1..k -> S] : k \in 0..n}

(***************************************************************************)
(* SpecChunk: _chunk called on its own                                     *)
(***************************************************************************)
MaxTextLen == 4      \* longest text of the small cases
MaxChars   == 3      \* largest max_chars of the small cases
\* the length of the text of the scenario: 10000 characters
LongLen    == 2 * DEFAULT_MAX_CHARS + 1000

LongText == SubSeq([i \in 1..LongLen |-> "x"], 1, LongLen)

InitChunk ==
    /\ pc = "chunk_call"
    /\ \/ /\ text \in SeqsUpTo({"a", "b"}, MaxTextLen) \cup {NoneVal}
          /\ max_chars \in 1..MaxChars
       \/ /\ text = LongText
          /\ max_chars = DEFAULT_MAX_CHARS
    /\ chunks = <<>>
    /\ top_k = DEFAULT_TOP_K
    /\ HandlerIdle /\ ScoreIdle

ChunkCall ==
    /\ pc = "chunk_call"
    /\ chunks' = _chunk(text, max_chars)
    /\ pc' = "chunk_done"
    /\ UNCHANGED <<handlerVars, text, max_chars, top_k,
                   jd_phrases, resume_phrases, pairs, cov>>

NextChunk == ChunkCall

SpecChunk == InitChunk /\ [][NextChunk]_vars

RECURSIVE Concat(_)
Concat(ss) == IF ss = <<>> THEN <<>> ELSE Head(ss) \o Concat(Tail(ss))

\* C2: for a text and max_chars >= 1 the chunks are a non-empty sequence
\* whose concatenation is the text; a text of at most max_chars characters
\* is the only chunk; otherwise every chunk but the last has max_chars
\* characters and the last has between 1 and max_chars; a text of 10000
\* characters with max_chars 4500 gives the lengths 4500, 4500, 1000.
C2_ChunkExact ==
    (pc = "chunk_done" /\ text # NoneVal) =>
        /\ Len(chunks) >= 1
        /\ Concat(chunks) = text
        /\ Len(text) <= max_chars => chunks = <<text>>
        /\ Len(text) > max_chars =>
              /\ \A i \in 1..(Len(chunks) - 1) : Len(chunks[i]) = max_chars
              /\ Len(chunks[Len(chunks)]) \in 1..max_chars
        /\ (Len(text) = 10000 /\ max_chars = 4500) =>
              [i \in DOMAIN chunks |-> Len(chunks[i])] = <<4500, 4500, 1000>>

\* a text was cut into at least three chunks, the last one shorter
C2_Witness ==
    /\ pc = "chunk_done"
    /\ text # NoneVal
    /\ Len(chunks) >= 3
    /\ Len(chunks[Len(chunks)]) < max_chars

(***************************************************************************)
(* SpecPairs: _best_pairs called on two phrase lists                       *)
(* SpecCoverage: _coverage called on two phrase lists                      *)
(***************************************************************************)
MaxRes  == 3     \* longest resume phrase list
MaxJd   == 2     \* longest job-description phrase list

PY    == <<"p", "y">>
PYML  == <<"P", "y", " ", "m", "l">>
OFML  == <<"o", "f", " ", "m", "l">>
CLANG == <<"c">>
PhraseUniverse == {PY, PYML, OFML, CLANG}

InitPairs ==
    /\ pc = "pairs_call"
    /\ resume_phrases \in SeqsUpTo(PhraseUniverse, MaxRes)
    /\ jd_phrases \in SeqsUpTo(PhraseUniverse, MaxJd)
    /\ top_k \in {0, 1, 2, DEFAULT_TOP_K}
    /\ pairs = <<>>
    /\ cov = Zero
    /\ HandlerIdle /\ ChunkIdle

BestPairsCall ==
    /\ pc = "pairs_call"
    /\ pairs' = _best_pairs(resume_phrases, jd_phrases, top_k)
    /\ pc' = "pairs_done"
    /\ UNCHANGED <<handlerVars, chunkVars, top_k, jd_phrases, resume_phrases, cov>>

NextPairs == BestPairsCall

SpecPairs == InitPairs /\ [][NextPairs]_vars

InitCoverage ==
    /\ pc = "coverage_call"
    /\ resume_phrases \in SeqsUpTo(PhraseUniverse, MaxRes)
    /\ jd_phrases \in SeqsUpTo(PhraseUniverse, MaxJd)
    /\ top_k = DEFAULT_TOP_K
    /\ pairs = <<>>
    /\ cov = Zero
    /\ HandlerIdle /\ ChunkIdle

CoverageCall ==
    /\ pc = "coverage_call"
    /\ cov' = _coverage(jd_phrases, resume_phrases, THRESH)
    /\ pc' = "coverage_done"
    /\ UNCHANGED <<handlerVars, chunkVars, top_k, jd_phrases, resume_phrases, pairs>>

NextCoverage == CoverageCall

SpecCoverage == InitCoverage /\ [][NextCoverage]_vars

\* the Jaccard score of two phrases
Score(p, q) == _jaccard(_tokenize(p), _tokenize(q))

\* C3 as claimed: coverage([], R) is 0.0, and coverage(J, R) is 1.0 when J
\* is not empty and every element of J equals some element of R.
C3_CoverageAsClaimed ==
    pc = "coverage_done" =>
        /\ jd_phrases = <<>> => cov = Zero
        /\ (/\ jd_phrases # <<>>
            /\ \A i \in DOMAIN jd_phrases :
                   jd_phrases[i] \in ToSet(resume_phrases))
           => cov = One

\* C3 amended: coverage([], R) is 0.0, and coverage(J, R) is 1.0 when J is
\* not empty and every element of J equals some element of R and has at
\* least one token.
C3_CoverageOfTokenized ==
    pc = "coverage_done" =>
        /\ jd_phrases = <<>> => cov = Zero
        /\ (/\ jd_phrases # <<>>
            /\ \A i \in DOMAIN jd_phrases :
                   /\ jd_phrases[i] \in ToSet(resume_phrases)
                   /\ _tokenize(jd_phrases[i]) # <<>>)
           => cov = One

\* two different job-description phrases, both among the resume phrases and
\* both with tokens, are fully covered
C3_Witness ==
    /\ pc = "coverage_done"
    /\ Len(jd_phrases) = 2
    /\ jd_phrases[1] # jd_phrases[2]
    /\ \A i \in DOMAIN jd_phrases :
           /\ jd_phrases[i] \in ToSet(resume_phrases)
           /\ _tokenize(jd_phrases[i]) # <<>>
    /\ cov = One

\* C4: _best_pairs returns at most top_k pairs, each with a score > 0.0.
C4_AtMostTopKPositive ==
    pc = "pairs_done" =>
        /\ Len(pairs) <= top_k
        /\ \A i \in DOMAIN pairs : Less(Zero, pairs[i][3])

\* the result was cut to top_k, and a resume phrase that scores 0.0 against
\* every job-description phrase is absent from it
C4_Witness ==
    /\ pc = "pairs_done"
    /\ top_k >= 1
    /\ Len(pairs) = top_k
    /\ \E i \in DOMAIN resume_phrases :
           /\ \A j \in DOMAIN jd_phrases :
                  Score(resume_phrases[i], jd_phrases[j]) = Zero
           /\ \A k \in DOMAIN pairs : pairs[k][1] # resume_phrases[i]
    /\ Cardinality({i \in DOMAIN resume_phrases :
           \E j \in DOMAIN jd_phrases :
               Score(resume_phrases[i], jd_phrases[j]) # Zero}) > top_k

\* the number of positions of s that hold x
Count(s, x) == Cardinality({i \in DOMAIN s : s[i] = x})

\* C7: a resume phrase is in at most as many returned pairs as it has
\* occurrences in res_phrases, and the job-description phrase of a pair is
\* the first of jd_phrases that attains the greatest score against it.
C7_FirstBestMatch ==
    pc = "pairs_done" =>
        /\ \A p \in PhraseUniverse :
               Cardinality({k \in DOMAIN pairs : pairs[k][1] = p})
                   <= Count(resume_phrases, p)
        /\ \A k \in DOMAIN pairs :
               \E i \in DOMAIN jd_phrases :
                   /\ jd_phrases[i] = pairs[k][2]
                   /\ Score(pairs[k][1], jd_phrases[i]) = pairs[k][3]
                   /\ \A j \in DOMAIN jd_phrases :
                          LessEq(Score(pairs[k][1], jd_phrases[j]), pairs[k][3])
                   /\ \A j \in 1..(i - 1) :
                          Less(Score(pairs[k][1], jd_phrases[j]), pairs[k][3])

\* a pair whose resume phrase scores the same against two different
\* job-description phrases, and two resume phrases paired with one
\* job-description phrase
C7_Witness ==
    /\ pc = "pairs_done"
    /\ \E k \in DOMAIN pairs :
           \E i, j \in DOMAIN jd_phrases :
               /\ jd_phrases[i] # jd_phrases[j]
               /\ Score(pairs[k][1], jd_phrases[i]) = pairs[k][3]
               /\ Score(pairs[k][1], jd_phrases[j]) = pairs[k][3]
    /\ \E k, m \in DOMAIN pairs :
           pairs[k][1] # pairs[m][1] /\ pairs[k][2] = pairs[m][2]

\* all the pairs of lines 77-85, in the order of the resume phrases
AllPairs ==
    ProducedPairs(resume_phrases, JdTok(jd_phrases), 1, Len(resume_phrases))

\* the position of element k of s in s sorted stably by descending score
Rank(s, k) ==
    1 + Cardinality({m \in DOMAIN s : Less(s[k][3], s[m][3])})
      + Cardinality({m \in 1..(k - 1) : s[m][3] = s[k][3]})

\* C8: the result is ordered by non-increasing score, pairs of equal score
\* keep the order of their resume phrases, and the result is the first
\* top_k elements of the stably sorted sequence of all the pairs.
C8_StableSortedPrefix ==
    pc = "pairs_done" =>
        LET all == AllPairs
        IN  /\ \A i, j \in DOMAIN pairs :
                   i < j => LessEq(pairs[j][3], pairs[i][3])
            /\ Len(pairs) = Min(top_k, Len(all))
            /\ \A k \in DOMAIN all :
                   LET r == Rank(all, k)
                   IN  r <= top_k => pairs[r] = all[k]

\* the sort moved a pair, two different returned pairs have the same score,
\* and a pair was cut off
C8_Witness ==
    /\ pc = "pairs_done"
    /\ Len(AllPairs) > top_k
    /\ pairs # Take(AllPairs, top_k)
    /\ \E i, j \in DOMAIN pairs :
           i < j /\ pairs[i][3] = pairs[j][3] /\ pairs[i][1] # pairs[j][1]

(***************************************************************************)
(* SpecHandler: one invocation of lambda_handler                           *)
(*                                                                         *)
(* The request.  event["body"] is absent (or neither str nor dict), a      *)
(* dict, or a str.  A str body is given by what json.loads makes of it:    *)
(* a dict, a value that is no dict (a JSON array), or an error.  A dict    *)
(* holds the two fields; each is absent (Missing), null (NoneVal) or a     *)
(* str.                                                                     *)
(*                                                                         *)
(* The service.  detect_key_phrases is the environment: every call either  *)
(* raises or returns a list of key phrases, chosen freely from Responses.  *)
(***************************************************************************)
Missing == <<"Missing">>

ShortText    == <<"P", "y", " ", "d", "e", "v">>
\* a text of two chunks
TwoChunkText == SubSeq([i \in 1..(DEFAULT_MAX_CHARS + 1) |-> "x"],
                       1, DEFAULT_MAX_CHARS + 1)

FieldValues == {Missing, NoneVal, <<>>, ShortText, TwoChunkText}

Dicts == [jd_text : FieldValues, resume_text : FieldValues]

Events ==
    {[type |-> "none"]}
    \cup {[type |-> "dict", value |-> d] : d \in Dicts}
    \cup {[type |-> "str", loads |-> "dict", value |-> d] : d \in Dicts}
    \cup {[type |-> "str", loads |-> "list"], [type |-> "str", loads |-> "error"]}

\* a response: the "Text" of its key phrases, as the service may give them
RawA == <<
    <<" ", " ", "(", "M", "a", "c", "h", "i", "n", "e", "-", "L", "e", "a", "r", "n", "i", "n", "g", "!", ")", " ", " ">>,
    <<"m", "a", "c", "h", "i", "n", "e", "-", "l", "e", "a", "r", "n", "i", "n", "g">>,
    <<"P", "y", " ", "\t", " ", "M", "L">>,
    <<"p", "y">>,
    <<"!", "!">>,
    NoneVal,
    <<"o", "f", " ", "a", " ", "c">>,
    <<"a", " ", "b", " ", "c", " ", "d", " ", "e", " ", "f", " ", "g">>,
    <<"A", " ", "b", " ", "c", " ", "d", " ", "e", " ", "f", ".">>
>>

\* another response
RawB == <<
    <<"p", "y", " ", "m", "l", " ", "d", "b">>,
    <<"P", "Y">>,
    <<"M", "a", "c", "h", "i", "n", "e", "-", "L", "e", "a", "r", "n", "i", "n", "g">>,
    <<"d", "b">>,
    <<"(", "m", "l", ")">>,
    <<"p", "y">>
>>

NBig == 52       \* number of key phrases of the big response

DigitSeq == <<"0","1","2","3","4","5","6","7","8","9">>

\* the key phrase "Kdd." of the big response
BigPhrase(i) ==
    <<"K", DigitSeq[((i \div 10) % 10) + 1], DigitSeq[(i % 10) + 1], ".">>

RawBig == AsList([i \in 1..NBig |-> BigPhrase(i)])

Responses == {<<>>, RawA, RawB, RawBig}

Docs == {"jd", "resume"}

TextOf(doc) == IF doc = "jd" THEN jd_text ELSE resume_text

\* dict.get(key, "")
Get(d, key) == IF d[key] = Missing THEN <<>> ELSE d[key]

\* not v, for a str or None
Falsy(v) == v = NoneVal \/ v = <<>>

\* lines 9-15 succeed: data is a dict
HasData == \/ event.type \in {"none", "dict"}
           \/ event.type = "str" /\ event.loads = "dict"

\* data of lines 9-15
Data == IF event.type = "none"
        THEN [jd_text |-> Missing, resume_text |-> Missing]
        ELSE event.value

JsonHeaders == [ContentType |-> "application/json", AllowOrigin |-> "*"]

Envelope(code, payload) ==
    [statusCode |-> code, headers |-> JsonHeaders, body |-> [dumps |-> payload]]

InitHandler ==
    /\ pc = "start"
    /\ event \in Events
    /\ jd_text = NoneVal
    /\ resume_text = NoneVal
    /\ idx = 0
    /\ phrases = <<>>
    /\ report = NoReport
    /\ response = NoResponse
    /\ inflight = {}
    /\ calls = <<>>
    /\ stream = [jd |-> <<>>, resume |-> <<>>]
    /\ failed = FALSE
    /\ top_k = DEFAULT_TOP_K
    /\ ScoreIdle /\ ChunkIdle

scoreVars == <<jd_phrases, resume_phrases, pairs, cov>>
extVars   == <<inflight, calls, stream, failed>>

\* lines 9-18 raise: json.loads fails, or data is no dict and data.get
\* raises AttributeError; the handler of lines 40-48 answers 500
ParseError ==
    /\ pc = "start"
    /\ ~HasData
    /\ response' = Envelope(500, [error |-> "exception"])
    /\ pc' = "done"
    /\ UNCHANGED <<event, jd_text, resume_text, idx, phrases, report,
                   scoreVars, extVars, chunkVars, top_k>>

\* lines 17-28: a field is missing or empty
Reject ==
    /\ pc = "start"
    /\ HasData
    /\ Falsy(Get(Data, "jd_text")) \/ Falsy(Get(Data, "resume_text"))
    /\ jd_text' = Get(Data, "jd_text")
    /\ resume_text' = Get(Data, "resume_text")
    /\ response' = Envelope(400,
                     [error |-> "Both jd_text and resume_text are required"])
    /\ pc' = "done"
    /\ UNCHANGED <<event, idx, phrases, report, scoreVars, extVars,
                   chunkVars, top_k>>

\* lines 17-30 and 108: both fields are there; generate_match_report is
\* called and aws_extract_key_phrases(jd_text) begins
EnterCore ==
    /\ pc = "start"
    /\ HasData
    /\ ~Falsy(Get(Data, "jd_text")) /\ ~Falsy(Get(Data, "resume_text"))
    /\ jd_text' = Get(Data, "jd_text")
    /\ resume_text' = Get(Data, "resume_text")
    /\ phrases' = <<>>
    /\ idx' = 1
    /\ pc' = "extract_jd"
    /\ UNCHANGED <<event, report, response, scoreVars, extVars, chunkVars, top_k>>

Request(doc) ==
    [doc |-> doc, idx |-> idx,
     Text |-> _chunk(TextOf(doc), DEFAULT_MAX_CHARS)[idx], LanguageCode |-> "en"]

\* line 59, the call: the request for chunk idx goes out and the invocation
\* blocks
Submit(doc) ==
    /\ pc = "extract_" \o doc
    /\ inflight' = inflight \cup {Request(doc)}
    /\ calls' = Append(calls, <<doc, idx>>)
    /\ pc' = "wait_" \o doc
    /\ UNCHANGED <<event, jd_text, resume_text, idx, phrases, report, response,
                   scoreVars, stream, failed, chunkVars, top_k>>

\* the number of chunks of the text of doc
ChunkCount(doc) == Len(_chunk(TextOf(doc), DEFAULT_MAX_CHARS))

\* lines 59-61, the call returns kps, with a further chunk to go
ReturnMoreWith(doc, kps) ==
    /\ pc = "wait_" \o doc
    /\ idx < ChunkCount(doc)
    /\ phrases' = phrases \o CleanAll(kps)
    /\ stream' = [stream EXCEPT ![doc] = @ \o kps]
    /\ inflight' = inflight \ {Request(doc)}
    /\ idx' = idx + 1
    /\ pc' = "extract_" \o doc
    /\ UNCHANGED <<event, jd_text, resume_text, report, response, scoreVars,
                   calls, chunkVars, top_k>>

\* lines 59-64 and 108-109: the call for the last chunk of jd_text returns
\* kps; jd_phrases is set and aws_extract_key_phrases(resume_text) begins
ReturnLastJdWith(kps) ==
    /\ pc = "wait_jd"
    /\ idx = ChunkCount("jd")
    /\ jd_phrases' = FinishExtraction(phrases \o CleanAll(kps))
    /\ stream' = [stream EXCEPT !.jd = @ \o kps]
    /\ inflight' = inflight \ {Request("jd")}
    /\ phrases' = <<>>
    /\ idx' = 1
    /\ pc' = "extract_resume"
    /\ UNCHANGED <<event, jd_text, resume_text, report, response,
                   resume_phrases, pairs, cov, calls, chunkVars, top_k>>

\* lines 59-64, 109-124 and lambda_function.py 30-39: the call for the last
\* chunk of resume_text returns kps; the report is built and answered
\* with 200
ReturnLastResumeWith(kps) ==
    /\ pc = "wait_resume"
    /\ idx = ChunkCount("resume")
    /\ LET all == phrases \o CleanAll(kps)
           rp  == FinishExtraction(all)
           ps  == _best_pairs(rp, jd_phrases, DEFAULT_TOP_K)
           c   == _coverage(jd_phrases, rp, THRESH)
           rep == BuildReport(jd_phrases, rp, ps, c)
       IN  /\ phrases' = all
           /\ resume_phrases' = rp
           /\ pairs' = ps
           /\ cov' = c
           /\ report' = rep
           /\ response' = Envelope(200, rep)
    /\ stream' = [stream EXCEPT !.resume = @ \o kps]
    /\ inflight' = inflight \ {Request("resume")}
    /\ pc' = "done"
    /\ UNCHANGED <<event, jd_text, resume_text, idx, jd_phrases, calls,
                   chunkVars, top_k>>

ReturnMore(doc) ==
    \E kps \in Responses : ReturnMoreWith(doc, kps) /\ UNCHANGED failed

ReturnLastJd ==
    \E kps \in Responses : ReturnLastJdWith(kps) /\ UNCHANGED failed

ReturnLastResume ==
    \E kps \in Responses : ReturnLastResumeWith(kps) /\ UNCHANGED failed

\* a plausible slip: the failed call is made again, once
Raise_retry(doc) ==
    /\ pc = "wait_" \o doc
    /\ inflight' = inflight \ {Request(doc)}
    /\ IF failed
       THEN /\ response' = Envelope(500, [error |-> "exception"])
            /\ pc' = "done"
       ELSE /\ response' = response
            /\ pc' = "extract_" \o doc
    /\ failed' = TRUE
    /\ UNCHANGED <<event, jd_text, resume_text, idx, phrases, report,
                   scoreVars, calls, stream, chunkVars, top_k>>

\* a plausible slip: the exception is caught around line 59 and the chunk
\* counts as one without key phrases
Raise_swallowed(doc) ==
    /\ failed' = TRUE
    /\ \/ ReturnMoreWith(doc, <<>>)
       \/ doc = "jd" /\ ReturnLastJdWith(<<>>)
       \/ doc = "resume" /\ ReturnLastResumeWith(<<>>)

\* line 59 raises: nothing in aws_extract_key_phrases or
\* generate_match_report catches, the handler of lambda_function.py 40-48
\* answers 500
Raise(doc) ==
    /\ pc = "wait_" \o doc
    /\ inflight' = inflight \ {Request(doc)}
    /\ failed' = TRUE
    /\ response' = Envelope(500, [error |-> "exception"])
    /\ pc' = "done"
    /\ UNCHANGED <<event, jd_text, resume_text, idx, phrases, report,
                   scoreVars, calls, stream, chunkVars, top_k>>

NextHandler ==
    \/ ParseError
    \/ Reject
    \/ EnterCore
    \/ \E doc \in Docs : Submit(doc)
    \/ \E doc \in Docs : ReturnMore(doc)
    \/ ReturnLastJd
    \/ ReturnLastResume
    \/ \E doc \in Docs : Raise(doc)

SpecHandler == InitHandler /\ [][NextHandler]_vars

(***************************************************************************)
(* Properties of an invocation                                             *)
(***************************************************************************)
\* generate_match_report has been called
CoreInvoked ==
    \/ pc \in {"extract_jd", "wait_jd", "extract_resume", "wait_resume"}
    \/ calls # <<>>

\* aws_extract_key_phrases(jd_text) has returned
JdExtracted ==
    \/ pc \in {"extract_resume", "wait_resume"}
    \/ \E i \in DOMAIN calls : calls[i][1] = "resume"

\* generate_match_report has returned
Reported == pc = "done" /\ report # NoReport

\* C1: when a call of the service has failed, there is no report, and the
\* response is the 500 envelope; a 200 response is never given after a
\* failed call.
C1_FailureGivesNoReport ==
    failed =>
        /\ report = NoReport
        /\ pc = "done"
        /\ response = Envelope(500, [error |-> "exception"])

\* the call for a chunk of the resume failed after phrases of both
\* documents had been returned
C1_Witness ==
    /\ failed
    /\ stream.jd # <<>>
    /\ stream.resume # <<>>
    /\ calls[Len(calls)][1] = "resume"
    /\ response.statusCode = 500

\* the number of spaces of p
Spaces(p) == Cardinality({i \in DOMAIN p : p[i] = " "})

\* the first position of s that holds x
FirstOf(s, x) == CHOOSE i \in DOMAIN s : s[i] = x /\ \A j \in 1..(i - 1) : s[j] # x

\* list is the Phrase List of the raw key phrases raw
IsPhraseListOf(list, raw) ==
    LET cleaned == CleanAll(raw)
    IN  /\ \A i, j \in DOMAIN list : i < j => list[i] # list[j]
        /\ \A i \in DOMAIN list : list[i] # <<>> /\ Spaces(list[i]) < 6
        /\ \A i \in DOMAIN list : \E k \in DOMAIN cleaned : cleaned[k] = list[i]
        /\ \A i, j \in DOMAIN list :
               i < j => FirstOf(cleaned, list[i]) < FirstOf(cleaned, list[j])
        /\ \A k \in DOMAIN cleaned :
               (cleaned[k] # <<>> /\ Spaces(cleaned[k]) < 6)
                   => Count(list, cleaned[k]) = 1

\* C9: the phrase list of a document has no two equal elements, no empty
\* phrase and no phrase of more than 6 words (of 6 or more spaces, the
\* words of a cleaned phrase being parted by single spaces); its elements
\* are in the order of the first occurrence of their cleaned text in the
\* key phrases the service returned, chunk by chunk; and every cleaned
\* phrase that is not empty and has at most 6 words is in it once.
C9_PhraseList ==
    /\ JdExtracted => IsPhraseListOf(jd_phrases, stream.jd)
    /\ Reported => IsPhraseListOf(resume_phrases, stream.resume)

\* the job description came in two chunks whose key phrases held an empty
\* one, one of seven words, and one cleaned text twice
C9_Witness ==
    /\ JdExtracted
    /\ \E i \in DOMAIN calls : calls[i] = <<"jd", 2>>
    /\ jd_phrases # <<>>
    /\ LET cleaned == CleanAll(stream.jd)
       IN  /\ \E k \in DOMAIN cleaned : cleaned[k] = <<>>
           /\ \E k \in DOMAIN cleaned : Spaces(cleaned[k]) = 6
           /\ \E k \in DOMAIN cleaned : Spaces(cleaned[k]) = 5
           /\ \E k, m \in DOMAIN cleaned :
                  k < m /\ cleaned[k] = cleaned[m] /\ stream.jd[k] # stream.jd[m]
                        /\ cleaned[k] # <<>>

\* h is n / d rounded to hundredths
IsRounded(h, x, scale) == 2 * (IF h * x[2] >= x[1] * scale
                               THEN h * x[2] - x[1] * scale
                               ELSE x[1] * scale - h * x[2]) <= x[2]

\* C5: in a report the two phrase lists are the first min(50, n) phrases
\* of the extracted lists, in their order; top_matches has at most 10
\* entries, whose rounded scores do not increase and lie in [0, 1]; and
\* overall_match_score is the coverage times 100 rounded to two decimals,
\* in [0, 100].
C5_ReportContract ==
    Reported =>
        /\ Len(report.jd_key_phrases) = Min(50, Len(jd_phrases))
        /\ \A i \in DOMAIN report.jd_key_phrases :
               report.jd_key_phrases[i] = jd_phrases[i]
        /\ Len(report.resume_key_phrases) = Min(50, Len(resume_phrases))
        /\ \A i \in DOMAIN report.resume_key_phrases :
               report.resume_key_phrases[i] = resume_phrases[i]
        /\ Len(report.top_matches) <= 10
        /\ \A i \in DOMAIN report.top_matches :
               /\ report.top_matches[i].score \in 0..100
               /\ i > 1 => report.top_matches[i].score
                               <= report.top_matches[i - 1].score
        /\ IsRounded(report.overall_match_score,
                     _coverage(jd_phrases, resume_phrases, THRESH), 10000)
        /\ report.overall_match_score \in 0..10000

\* a report of more than 50 phrases on either side and more than 10 pairs,
\* with an overall score that needed rounding
C5_Witness ==
    /\ Reported
    /\ Len(jd_phrases) > 50
    /\ Len(resume_phrases) > 50
    /\ Len(report.top_matches) = 10
    /\ Len(ProducedPairs(resume_phrases, JdTok(jd_phrases), 1,
                         Len(resume_phrases))) > 10
    /\ (cov[1] * 10000) % cov[2] # 0

\* jd_text or resume_text is missing or empty in the parsed request body
FieldMissingOrEmpty ==
    \/ event.type = "none"
    \/ event.type = "str" /\ event.loads = "list"
    \/ /\ HasData
       /\ Falsy(Get(Data, "jd_text")) \/ Falsy(Get(Data, "resume_text"))

\* C6: when jd_text or resume_text is missing or empty in the parsed
\* request body, the core is never invoked and the response is the 400
\* validation error.
C6_MissingFieldGives400 ==
    FieldMissingOrEmpty =>
        /\ ~CoreInvoked
        /\ pc = "done" => response.statusCode = 400

\* the calls of an invocation that succeeds: the chunks of jd_text in
\* order, then the chunks of resume_text in order
NumChunks(t) ==
    IF Len(t) <= DEFAULT_MAX_CHARS THEN 1
    ELSE (Len(t) + DEFAULT_MAX_CHARS - 1) \div DEFAULT_MAX_CHARS

ExpectedCalls ==
    [i \in 1..NumChunks(jd_text) |-> <<"jd", i>>]
    \o [i \in 1..NumChunks(resume_text) |-> <<"resume", i>>]

IsPrefix(s, t) == Len(s) <= Len(t) /\ \A i \in DOMAIN s : s[i] = t[i]

C10_State ==
    /\ CoreInvoked => IsPrefix(calls, ExpectedCalls)
    /\ \A i, j \in DOMAIN calls : i # j => calls[i] # calls[j]
    /\ Cardinality(inflight) <= 1
    /\ \A r \in inflight :
           /\ calls[Len(calls)] = <<r.doc, r.idx>>
           /\ r.Text = Slice(TextOf(r.doc), (r.idx - 1) * DEFAULT_MAX_CHARS,
                             r.idx * DEFAULT_MAX_CHARS)
    /\ Reported => calls = ExpectedCalls

C10_Step ==
    /\ failed => calls' = calls
    /\ calls' # calls => inflight = {} /\ Len(calls') = Len(calls) + 1

\* C10: the calls of an invocation are the chunks of jd_text in order and
\* then the chunks of resume_text in order, each once; at most one call is
\* outstanding, a call is made only when none is, and no call is made
\* after a failed one.
C10_SequentialCalls == []C10_State /\ [][C10_Step]_vars

\* all four chunks of two texts of two chunks were submitted, and the last
\* call is outstanding
C10_Witness ==
    /\ Len(calls) = 4
    /\ inflight # {}
    /\ pc = "wait_resume"

====
